---- MODULE Spec2Model ----
(***************************************************************************)
(* The deep-research agent loop of supabase/functions/deep-research        *)
(* (index.ts, lines 1-612): the AgentState record, the event stream, the   *)
(* collaborators (policy LLM, search provider, content extractor, report   *)
(* synthesizer) as nondeterministic inputs, and one action per await point *)
(* of the ReadableStream start() callback.                                 *)
(***************************************************************************)
EXTENDS Integers, Sequences, FiniteSets, TLC

VARIABLES
    originalQuestion,   \* state.originalQuestion
    currentQuestion,    \* state.currentQuestion
    gaps,               \* state.gaps: sequence of GapQuestion
    knowledge,          \* state.knowledge: sequence of KnowledgeItem
    visitedUrls,        \* state.visitedUrls
    searchQueries,      \* state.searchQueries
    step,               \* state.step
    failedAttempts,     \* state.failedAttempts
    availableUrls,      \* availableUrls: URLs collected from searches
    pc,                 \* position of start() in its body
    response,           \* what callLLM gave getAgentAction in the latest action
    action,             \* what getAgentAction returned in the latest action
    path,               \* how the loop was left: "answer" branch or "budget"
    report,             \* what synthesizeReport gave: a report, or it threw
    todo,               \* rest of the list the for-loop of the branch iterates
    events,             \* the events the latest action enqueued, in order
    terminals,          \* number of answer/error events enqueued in the run
    closed,             \* controller.close() has been called
    cancelled,          \* the consumer has cancelled the stream
    synthCalls,         \* number of synthesizeReport calls started
    synthKnowledge,     \* the knowledge list handed to synthesizeReport
    searchCalls,        \* query -> number of tavilySearch calls
    readCalls,          \* url -> number of readUrl calls
    fetched,            \* what the Tavily request of the latest action gave
    candidates,         \* the url list handed to the policy call in flight
    request,            \* the HTTP request serve() was called with
    reply,              \* the Response serve() returned, if it has
    appState,           \* Index: appState
    clientEvents,       \* Index: events
    reportData,         \* Index: reportData
    cpc,                \* position of Index.handleResearch in its body
    sent,               \* the events the server emitted for the fetch
    wire,               \* the bytes of the response body not yet read
    buffer,             \* handleResearch: buffer
    pending,            \* the bytes the TextDecoder holds back
    text,               \* truncateToTokens: text
    maxTokens,          \* truncateToTokens: maxTokens
    once,               \* truncateToTokens(text, maxTokens)
    twice,              \* truncateToTokens of that, same budget
    tpc                 \* which of the two calls have returned

vars == <<originalQuestion, currentQuestion, gaps, knowledge, visitedUrls,
          searchQueries, step, failedAttempts, availableUrls, pc, response, action,
          path, report,
          todo, events, terminals, closed, cancelled, synthCalls, synthKnowledge,
          searchCalls, readCalls, fetched, candidates, request, reply,
          appState, clientEvents, reportData, cpc, sent, wire, buffer, pending,
          text, maxTokens, once, twice, tpc>>

stateVars == <<originalQuestion, currentQuestion, gaps, knowledge, visitedUrls,
               searchQueries, step, failedAttempts, availableUrls>>

callVars == <<synthCalls, synthKnowledge, searchCalls, readCalls>>

clientVars == <<appState, clientEvents, reportData, cpc, sent, wire, buffer,
                pending>>

truncVars == <<text, maxTokens, once, twice, tpc>>

\* the variables of serve()
serveVars == <<stateVars, pc, response, action, path, report, todo, events,
               terminals, closed, cancelled, callVars, fetched, candidates,
               request, reply>>

\* the variables outside the run of start()
sideVars == <<request, reply, clientVars, truncVars>>

-----------------------------------------------------------------------------
(* Configuration, index.ts lines 60-63 and the literal of line 517.        *)

MAX_STEPS == 25
MAX_FAILED_ATTEMPTS == 3
MAX_URLS_PER_STEP == 3
MIN_KNOWLEDGE == 3

(* Bounds of the model.                                                    *)

MaxQueryList == 2      \* longest searchQueries list of a decision
MaxUrlList == 4        \* longest urlsToRead list of a decision
MaxGapList == 2        \* longest gapQuestions list of a decision
MaxGaps == 3           \* longest gaps queue the model lets a reflect build
MaxResults == 2        \* longest result list of the search provider
MaxShortList == 1      \* longest list of the universes with short lists

Topics == {"T"}
Questions == {"T", "A", "B"}
Urls == {"u1", "u2", "u3"}

SeqsUpTo(S, n) == UNION {[1..k -> S] : k \in 0..n}

Min(a, b) == IF a < b THEN a ELSE b

GapDomain ==
    { [question |-> "A", priority |-> 3, reason |-> "gap"],
      [question |-> "B", priority |-> 1, reason |-> "gap"],
      [question |-> "T", priority |-> 2, reason |-> "gap"] }

(* The universes a specification draws the collaborators' answers from:    *)
(* the query, url and gap lists the policy proposes, the decision tags it  *)
(* uses, the kinds of content callLLM yields for it (texts), and the       *)
(* result lists of the search provider and the ways its request ends       *)
(* (fetches).                                                              *)

AllTags == {"search", "read", "reflect", "answer", "odd"}
AllTexts == {"error", "notJson", "null", "object"}
AllFetches == {"threw", "notOk", "results"}

Full ==
    [queryLists |-> SeqsUpTo(Questions, MaxQueryList),
     urlLists |-> SeqsUpTo(Urls, MaxUrlList),
     gapLists |-> SeqsUpTo(GapDomain, MaxGapList),
     results |-> SeqsUpTo(Urls, MaxResults),
     tags |-> AllTags, texts |-> AllTexts, fetches |-> AllFetches]

\* budgets, gates, terminal paths: few strings, every kind of response
Control ==
    [queryLists |-> SeqsUpTo({"T", "A"}, MaxQueryList),
     urlLists |-> SeqsUpTo({"u1"}, MaxUrlList),
     gapLists |-> {<<>>},
     results |-> SeqsUpTo({"u1"}, MaxResults),
     tags |-> AllTags, texts |-> AllTexts, fetches |-> AllFetches]

\* the same with short lists, for the runs to their end
Short ==
    [queryLists |-> SeqsUpTo({"T", "A"}, MaxShortList),
     urlLists |-> SeqsUpTo({"u1"}, MaxShortList),
     gapLists |-> {<<>>},
     results |-> SeqsUpTo({"u1"}, MaxShortList),
     tags |-> AllTags, texts |-> AllTexts, fetches |-> AllFetches]

\* the gap queue: every gap question, a provider that finds nothing
Gaps ==
    [queryLists |-> SeqsUpTo({"T"}, MaxQueryList),
     urlLists |-> SeqsUpTo({"u1"}, MaxUrlList),
     gapLists |-> SeqsUpTo(GapDomain, MaxGapList),
     results |-> {<<>>},
     tags |-> {"search", "read", "reflect", "odd"},
     texts |-> {"error", "object"}, fetches |-> {"results"}]

\* search and read bookkeeping: two queries, two urls, overlapping results
Data ==
    [queryLists |-> SeqsUpTo({"T", "A"}, MaxQueryList),
     urlLists |-> SeqsUpTo({"u1", "u2"}, MaxUrlList),
     gapLists |-> {<<>>},
     results |-> SeqsUpTo({"u1", "u2"}, MaxShortList),
     tags |-> {"search", "read", "answer"},
     texts |-> {"error", "object"}, fetches |-> {"results"}]

\* the read branch: every list of urls, a provider that finds nothing
Reads ==
    [queryLists |-> SeqsUpTo({"T"}, MaxShortList),
     urlLists |-> SeqsUpTo(Urls, MaxUrlList),
     gapLists |-> {<<>>},
     results |-> {<<>>},
     tags |-> {"search", "read"},
     texts |-> {"error", "object"}, fetches |-> {"results"}]

\* the search branch: two queries, result lists that overlap and repeat
Search ==
    [queryLists |-> SeqsUpTo({"T", "A"}, MaxQueryList),
     urlLists |-> SeqsUpTo({"u1"}, MaxShortList),
     gapLists |-> {<<>>},
     results |-> SeqsUpTo({"u1", "u2"}, MaxResults),
     tags |-> {"search", "read"},
     texts |-> {"error", "object"}, fetches |-> {"results"}]

\* the order of the sub-actions: lists of two queries and of two urls
Order ==
    [queryLists |-> SeqsUpTo({"T", "A"}, MaxQueryList),
     urlLists |-> SeqsUpTo({"u1", "u2"}, MaxQueryList),
     gapLists |-> {<<>>},
     results |-> SeqsUpTo({"u1"}, MaxShortList),
     tags |-> {"search", "read"},
     texts |-> {"error", "object"}, fetches |-> {"results"}]

\* the cap of the read branch: long url lists, a provider that finds u2
Cap ==
    [queryLists |-> SeqsUpTo({"T"}, MaxShortList),
     urlLists |-> SeqsUpTo({"u1", "u2"}, MaxUrlList),
     gapLists |-> {<<>>},
     results |-> SeqsUpTo({"u2"}, MaxShortList),
     tags |-> {"search", "read"},
     texts |-> {"error", "object"}, fetches |-> {"results"}]

-----------------------------------------------------------------------------
(* Inputs: what the collaborators may answer.                              *)

AgentAction(tag, present, qs, us, gs) ==
    [action |-> tag, present |-> present, searchQueries |-> qs,
     urlsToRead |-> us, gapQuestions |-> gs]

\* JSON.parse("null"): not an object, reading a property of it throws
JsNull == AgentAction("<null>", {}, <<>>, <<>>, <<>>)

\* no decision at hand
NoAction == AgentAction("<none>", {}, <<>>, <<>>, <<>>)

SearchDecisions(U) ==
    { AgentAction("search", {"searchQueries"}, qs, <<>>, <<>>) :
        qs \in U.queryLists }

ReadDecisions(U) ==
    { AgentAction("read", {"urlsToRead"}, <<>>, us, <<>>) :
        us \in U.urlLists }

ReflectDecisions(U) ==
    { AgentAction("reflect", {"gapQuestions"}, <<>>, <<>>, gs) :
        gs \in U.gapLists }

AnswerDecisions == { AgentAction("answer", {}, <<>>, <<>>, <<>>) }

\* parseable JSON objects that are no decision: an unknown tag, a tag without
\* its payload list
OddDecisions ==
    { AgentAction(t, {}, <<>>, <<>>, <<>>) :
        t \in {"summarize", "search", "read", "reflect"} }

ValidDecisions(U) ==
    SearchDecisions(U) \cup ReadDecisions(U) \cup ReflectDecisions(U)
        \cup AnswerDecisions

TagOf(d) ==
    IF d \in OddDecisions THEN "odd" ELSE d.action

NoResponse == [ok |-> TRUE, text |-> "<none>", value |-> NoAction]

\* what callLLM yields for the policy prompt: a thrown error (non-OK status),
\* or the content string, which is no JSON, the JSON null, or a JSON object
LLMResponses(U) ==
    { r \in { [ok |-> FALSE, text |-> "error", value |-> NoAction],
              [ok |-> TRUE, text |-> "notJson", value |-> NoAction],
              [ok |-> TRUE, text |-> "null", value |-> JsNull] } :
        r.text \in U.texts }
    \cup { [ok |-> TRUE, text |-> "object", value |-> d] :
             d \in { x \in ValidDecisions(U) \cup OddDecisions :
                       "object" \in U.texts /\ TagOf(x) \in U.tags } }

\* tavilySearch: the provider's results (urls), or [] on a non-OK response or a
\* thrown error
SearchResults(U) == U.results

\* readUrl: content, the empty string, or null
ReadResults == {"content", "", "null"}

Fetch(call, kind, results, content) ==
    [call |-> call, kind |-> kind, results |-> results, content |-> content]

\* no request in the latest action
NoFetch == Fetch("<none>", "<none>", <<>>, "<none>")

\* how the request of tavilySearch ends: fetch or response.json() throws, the
\* status is not OK, or the body is read and holds the results
SearchOutcomes(U) ==
    { Fetch("search", k, <<>>, "<none>") : k \in U.fetches \ {"results"} }
    \cup { Fetch("search", "results", r, "<none>") :
             r \in { x \in SearchResults(U) : "results" \in U.fetches } }

\* the try/catch left out: a thrown error is passed on to the caller
tavilySearchMutant(o) ==
    [threw |-> o.kind = "threw",
     results |-> IF o.kind = "results" THEN o.results ELSE <<>>]

\* lines 76-106: the results of the body; [] on a non-OK status (91-94) and
\* on a thrown error (102-105), which is caught
tavilySearch(o) ==
    [threw |-> FALSE,
     results |-> IF o.kind = "results" THEN o.results ELSE <<>>]

-----------------------------------------------------------------------------
(* The request and the Response of serve(), lines 319-342 and 595-611.     *)

\* a request: its method, the two keys of the environment it is served in,
\* and its body: no JSON, the JSON null, or a JSON object with its topic
Request(method, lovable, tavily, body, topic) ==
    [method |-> method, lovableKey |-> lovable, tavilyKey |-> tavily,
     body |-> body, topic |-> topic]

NoTopic == "<missing>"

Requests ==
    { Request(m, l, t, b, topic) :
        m \in {"OPTIONS", "POST"}, l \in BOOLEAN, t \in BOOLEAN,
        b \in {"notJson", "null"}, topic \in {NoTopic} }
    \cup
    { Request(m, l, t, "object", topic) :
        m \in {"OPTIONS", "POST"}, l \in BOOLEAN, t \in BOOLEAN,
        topic \in {NoTopic, ""} \cup Topics }

\* the topic validated before the keys
ValidateMutant(req) ==
    IF req.method = "OPTIONS" THEN "preflight"
    ELSE IF req.body # "object" THEN "threw"
    ELSE IF req.topic \in {NoTopic, ""} THEN "topic"
    ELSE IF ~req.lovableKey \/ ~req.tavilyKey THEN "keys"
    ELSE "stream"

\* lines 320-342: which Response the request gets
Validate(req) ==
    IF req.method = "OPTIONS" THEN "preflight"
    ELSE IF ~req.lovableKey \/ ~req.tavilyKey THEN "keys"
    ELSE IF req.body # "object" THEN "threw"
    ELSE IF req.topic \in {NoTopic, ""} THEN "topic"
    ELSE "stream"

\* the Response objects of lines 321, 328-331, 337-340, 597-604, 607-610
Reply(kind) ==
    IF kind = "preflight" THEN [status |-> 200, type |-> "empty"]
    ELSE IF kind = "keys" THEN [status |-> 500, type |-> "json"]
    ELSE IF kind = "threw" THEN [status |-> 500, type |-> "json"]
    ELSE IF kind = "topic" THEN [status |-> 400, type |-> "json"]
    ELSE [status |-> 200, type |-> "stream"]

NoReply == [status |-> 0, type |-> "none"]

-----------------------------------------------------------------------------
(* Events.                                                                 *)

\* the steps left reported in place of the steps taken
EventMutant(type, message, s, data) ==
    [type |-> type, message |-> message, step |-> MAX_STEPS - s, data |-> data]

Event(type, message, s, data) ==
    [type |-> type, message |-> message, step |-> s, data |-> data]

ErrorEvent == [type |-> "error", message |-> "Error"]

IsTerminal(e) == e.type \in {"answer", "error"}

\* the pool of candidate urls counted in place of the visited ones
StatsMutant ==
    [totalSteps |-> step,
     knowledgeItems |-> Len(knowledge),
     urlsVisited |-> Len(availableUrls),
     searchesPerformed |-> Cardinality(searchQueries),
     gapsInvestigated |-> Len(gaps)]

\* lines 542-548 and 575-581
Stats ==
    [totalSteps |-> step,
     knowledgeItems |-> Len(knowledge),
     urlsVisited |-> Cardinality(visitedUrls),
     searchesPerformed |-> Cardinality(searchQueries),
     gapsInvestigated |-> Len(gaps)]

-----------------------------------------------------------------------------
(* Helpers of the loop body.                                               *)

\* the continue left out: no entry is skipped
DropSeenMutant(list, seen) == list

RECURSIVE DropSeen(_, _)
\* the `continue` of the for-loops: skip the leading entries already seen
DropSeen(list, seen) ==
    IF list = <<>> THEN <<>>
    ELSE IF Head(list) \in seen THEN DropSeen(Tail(list), seen)
    ELSE list

Reverse(list) == [i \in 1..Len(list) |-> list[Len(list) + 1 - i]]

\* the queries taken from the end of the list
NextQueryReverseMutant(list, seen) == DropSeen(Reverse(list), seen)

\* the has(query) test of line 424 left out
NextQueryMutant(list, seen) == list

\* lines 423-424: the queries left to issue, given those already issued
NextQuery(list, seen) == DropSeen(list, seen)

\* the has(url) test of line 462 left out
NextUrlMutant(list, seen) == list

\* line 462: the urls left to read, given those already visited
NextUrl(list, seen) == DropSeen(list, seen)

Includes(list, x) == \E i \in 1..Len(list) : list[i] = x

\* the includes test of line 432 left out
AddUrlsMutant(avail, results) == avail \o results

RECURSIVE AddUrls(_, _)
\* lines 431-435: push every result url the list does not include yet
AddUrls(avail, results) ==
    IF results = <<>> THEN avail
    ELSE AddUrls(IF Includes(avail, Head(results)) THEN avail
                 ELSE Append(avail, Head(results)),
                 Tail(results))

\* the filter left out: the whole pool is handed over
CandidatesMutant == availableUrls

\* line 406: availableUrls.filter(u => !state.visitedUrls.has(u))
Candidates == SelectSeq(availableUrls, LAMBDA u : u \notin visitedUrls)

\* the item put at the head of the list (unshift)
PushMutant(list, item) == <<item>> \o list

\* lines 438 and 473: state.knowledge.push(item)
Push(list, item) == Append(list, item)

SearchItem(query, results) ==
    [question |-> query, answer |-> "snippets", sources |-> results,
     type |-> "search"]

UrlItem(url) ==
    [question |-> url, answer |-> "content", sources |-> <<url>>, type |-> "url"]

MainGap(q) == [question |-> q, priority |-> 1, reason |-> "Main research question"]

HasQuestion(queue, q) == \E i \in 1..Len(queue) : queue[i].question = q

\* the new gaps put at the head of the queue
ReflectMutant(queue, gs, original) ==
    LET pushed == gs \o queue
    IN  IF HasQuestion(pushed, original) THEN pushed
        ELSE Append(pushed, MainGap(original))

\* lines 497-514: push the gaps, then the original question unless queued
Reflect(queue, gs, original) ==
    LET pushed == queue \o gs
    IN  IF HasQuestion(pushed, original) THEN pushed
        ELSE Append(pushed, MainGap(original))

\* lines 258-262: the default decision
DefaultAction(q) == AgentAction("search", {"searchQueries"}, <<q>>, <<>>, <<>>)

\* every content replaced by the default decision
ParseActionMutant(r, q) == DefaultAction(q)

\* lines 254-263: JSON.parse of the content, the default decision if it throws
ParseAction(r, q) ==
    IF r.text = "notJson" THEN DefaultAction(q) ELSE r.value

\* a gap event sent for the re-appended original question as well
GapEventsMutant(gs, s) ==
    [i \in 1..(Len(gs) + 1) |->
        Event("gap", "gap identified", s,
              IF i <= Len(gs) THEN gs[i] ELSE MainGap(originalQuestion))]

\* the events of a reflect branch, one per gap (lines 497-505)
RECURSIVE GapEvents(_, _)
GapEvents(gs, s) ==
    IF gs = <<>> THEN <<>>
    ELSE <<Event("gap", "gap identified", s, Head(gs))>> \o GapEvents(Tail(gs), s)

\* the cap left out: the whole list is iterated
SliceMutant(list) == list

\* the visited urls filtered out before the cap is applied
SliceFilterMutant(list) ==
    LET fresh == SelectSeq(list, LAMBDA u : u \notin visitedUrls)
    IN  SubSeq(fresh, 1, Min(Len(fresh), MAX_URLS_PER_STEP))

\* line 461: action.urlsToRead.slice(0, MAX_URLS_PER_STEP)
Slice(list) == SubSeq(list, 1, Min(Len(list), MAX_URLS_PER_STEP))

\* the bound on steps off by one
LoopConditionStepMutant == step <= MAX_STEPS /\ failedAttempts < MAX_FAILED_ATTEMPTS

\* the bound on rejected answers off by one
LoopConditionMutant == step < MAX_STEPS /\ failedAttempts <= MAX_FAILED_ATTEMPTS

\* line 379
LoopCondition == step < MAX_STEPS /\ failedAttempts < MAX_FAILED_ATTEMPTS

\* the guard off by one: gaps taken from step 2 on
ShouldDequeueMutant(s) == Len(gaps) > 0 /\ s >= 2

\* line 395, evaluated after the increment of line 380
ShouldDequeue(s) == Len(gaps) > 0 /\ s > 2

\* the gate only rejecting an answer over no knowledge at all
IsPrematureEmptyMutant == knowledge = <<>>

\* the test of line 473 written as content !== null
HasContentMutant(content) == content # "null"

\* line 473, if (content): null and the empty string are falsy
HasContent(content) == content \notin {"", "null"}

\* the test of line 517 written with <=
IsPrematureStrictMutant == Len(knowledge) <= MIN_KNOWLEDGE

\* the knowledge threshold off by one
IsPrematureMutant == Len(knowledge) < MIN_KNOWLEDGE - 1

\* line 517
IsPremature == Len(knowledge) < MIN_KNOWLEDGE

\* no page is open
ClientIdle ==
    /\ appState = "idle"
    /\ clientEvents = <<>>
    /\ reportData = "null"
    /\ cpc = "idle"
    /\ sent = <<>>
    /\ wire = <<>>
    /\ buffer = <<>>
    /\ pending = <<>>

\* no text is being truncated
NoTruncate ==
    /\ text = <<>>
    /\ maxTokens = 0
    /\ once = <<>>
    /\ twice = <<>>
    /\ tpc = "idle"

-----------------------------------------------------------------------------
(* The run.                                                                *)

Init ==
    /\ originalQuestion \in Topics
    /\ currentQuestion = originalQuestion
    /\ gaps = <<>>
    /\ knowledge = <<>>
    /\ visitedUrls = {}
    /\ searchQueries = {}
    /\ step = 0
    /\ failedAttempts = 0
    /\ availableUrls = <<>>
    /\ pc = "start"
    /\ response = NoResponse
    /\ action = NoAction
    /\ path = "loop"
    /\ report = "<none>"
    /\ todo = <<>>
    /\ events = <<>>
    /\ terminals = 0
    /\ closed = FALSE
    /\ cancelled = FALSE
    /\ synthCalls = 0
    /\ synthKnowledge = <<>>
    /\ searchCalls = [q \in Questions |-> 0]
    /\ readCalls = [u \in Urls |-> 0]
    /\ fetched = NoFetch
    /\ candidates = <<>>
    /\ request = Request("POST", TRUE, TRUE, "object", originalQuestion)
    /\ reply = Reply("stream")
    /\ ClientIdle
    /\ NoTruncate

\* no agent state, start() at position p
NoRun(p) ==
    /\ originalQuestion = NoTopic
    /\ currentQuestion = NoTopic
    /\ gaps = <<>>
    /\ knowledge = <<>>
    /\ visitedUrls = {}
    /\ searchQueries = {}
    /\ step = 0
    /\ failedAttempts = 0
    /\ availableUrls = <<>>
    /\ pc = p
    /\ response = NoResponse
    /\ action = NoAction
    /\ path = "loop"
    /\ report = "<none>"
    /\ todo = <<>>
    /\ events = <<>>
    /\ terminals = 0
    /\ closed = FALSE
    /\ cancelled = FALSE
    /\ synthCalls = 0
    /\ synthKnowledge = <<>>
    /\ searchCalls = [q \in Questions |-> 0]
    /\ readCalls = [u \in Urls |-> 0]
    /\ fetched = NoFetch
    /\ candidates = <<>>

\* a request arrives: no agent state yet
InitServe ==
    /\ request \in Requests
    /\ reply = NoReply
    /\ NoRun("serve")
    /\ ClientIdle
    /\ NoTruncate

\* lines 319-360 and 595-611: the request is validated; a Response is
\* returned, and only for the streaming one is the agent state created and
\* start() run
Serve ==
    /\ pc = "serve"
    /\ reply' = Reply(Validate(request))
    /\ IF Validate(request) = "stream"
       THEN /\ originalQuestion' = request.topic
            /\ currentQuestion' = request.topic
            /\ pc' = "start"
       ELSE /\ pc' = "replied"
            /\ UNCHANGED <<originalQuestion, currentQuestion>>
    /\ UNCHANGED <<request, gaps, knowledge, visitedUrls, searchQueries, step,
                   failedAttempts, availableUrls, response, action, path,
                   report, todo, events, terminals, closed, cancelled,
                   callVars, fetched, candidates, clientVars, truncVars>>

\* the error swallowed: close() without an error event
CatchMutant ==
    /\ events' = <<>>
    /\ terminals' = terminals
    /\ closed' = ~cancelled
    /\ pc' = "done"

\* the error reported and the sink left open
CatchNoCloseMutant ==
    /\ events' = IF cancelled THEN <<>> ELSE <<ErrorEvent>>
    /\ terminals' = IF cancelled THEN terminals ELSE terminals + 1
    /\ closed' = FALSE
    /\ pc' = "done"

\* the error reported and the loop tried again
CatchRetryMutant ==
    /\ events' = IF cancelled THEN <<>> ELSE <<ErrorEvent>>
    /\ terminals' = IF cancelled THEN terminals ELSE terminals + 1
    /\ closed' = FALSE
    /\ pc' = "loop"

\* lines 586-593, the outer catch: an error event and close(). On a cancelled
\* stream the enqueue of the throwing sendEvent, and the one of the catch
\* block, throw: start() rejects with nothing enqueued and no close().
Catch ==
    /\ events' = IF cancelled THEN <<>> ELSE <<ErrorEvent>>
    /\ terminals' = IF cancelled THEN terminals ELSE terminals + 1
    /\ closed' = ~cancelled
    /\ pc' = "done"

\* the report taken from the decision's finalAnswer, synthesizeReport not called
SynthStartMutant(p) ==
    /\ synthCalls' = synthCalls
    /\ synthKnowledge' = synthKnowledge
    /\ path' = p
    /\ pc' = "synth"

\* lines 534 and 567: synthesizeReport(topic, state.knowledge, key) is called
\* on path p
SynthStart(p) ==
    /\ synthCalls' = synthCalls + 1
    /\ synthKnowledge' = knowledge
    /\ path' = p
    /\ pc' = "synth"

\* the return of line 553 left out: the loop goes on after the answer
AnswerExitMutant == "delay"

\* lines 552-553 and 585: after the answer event, close() and the run is over
AnswerExit == "done"

\* lines 371-376
Start ==
    /\ UNCHANGED sideVars
    /\ pc = "start"
    /\ fetched' = NoFetch
    /\ candidates' = <<>>
    /\ events' = <<Event("thinking", "start", 0, MAX_STEPS)>>
    /\ pc' = "loop"
    /\ UNCHANGED <<stateVars, response, action, path, report, todo, terminals,
                   closed, cancelled, callVars>>

\* the progress event sent before the increment of line 380
PrologueEventsMutant(s) ==
    LET progress ==
            Event("progress", "step", s - 1,
                  [knowledgeCount |-> Len(knowledge),
                   gapsCount |-> Len(gaps),
                   urlsVisited |-> Cardinality(visitedUrls)])
    IN  IF ShouldDequeue(s)
        THEN << progress,
                Event("thinking", "sub-question", s, Head(gaps).question) >>
        ELSE << progress >>

\* lines 382-403: the events of the top of step s, the progress event and,
\* if a gap is dequeued, the thinking event that announces it
PrologueEvents(s) ==
    LET progress ==
            Event("progress", "step", s,
                  [knowledgeCount |-> Len(knowledge),
                   gapsCount |-> Len(gaps),
                   urlsVisited |-> Cardinality(visitedUrls)])
    IN  IF ShouldDequeue(s)
        THEN << progress,
                Event("thinking", "sub-question", s, Head(gaps).question) >>
        ELSE << progress >>

\* lines 379-406: the guard holds; increment, progress event, gap dequeue,
\* and the policy call is started
StepBegin ==
    /\ UNCHANGED sideVars
    /\ pc = "loop"
    /\ fetched' = NoFetch
    /\ candidates' = IF cancelled THEN <<>> ELSE Candidates
    /\ LoopCondition
    /\ step' = step + 1
    /\ IF cancelled
       THEN /\ Catch
            /\ UNCHANGED <<gaps, currentQuestion>>
       ELSE /\ IF ShouldDequeue(step')
               THEN /\ gaps' = Tail(gaps)
                    /\ currentQuestion' = Head(gaps).question
               ELSE UNCHANGED <<gaps, currentQuestion>>
            /\ events' = PrologueEvents(step')
            /\ pc' = "policy"
            /\ UNCHANGED <<terminals, closed>>
    /\ response' = NoResponse
    /\ action' = NoAction
    /\ UNCHANGED <<originalQuestion, knowledge, visitedUrls, searchQueries,
                   failedAttempts, availableUrls, path, report, todo, cancelled,
                   callVars>>

\* lines 560-567: the guard fails; the forced synthesis is started
LoopExit ==
    /\ UNCHANGED sideVars
    /\ pc = "loop"
    /\ fetched' = NoFetch
    /\ candidates' = <<>>
    /\ ~LoopCondition
    /\ IF cancelled
       THEN /\ Catch
            /\ UNCHANGED <<path, synthCalls, synthKnowledge>>
       ELSE /\ events' = <<Event("thinking", "max depth", step, "none")>>
            /\ SynthStart("budget")
            /\ UNCHANGED <<terminals, closed>>
    /\ response' = NoResponse
    /\ action' = NoAction
    /\ UNCHANGED <<stateVars, report, todo, cancelled, searchCalls, readCalls>>

\* every decision counted as a failed attempt
DispatchMutant(a) ==
    /\ events' = <<Event("thinking", "reasoning", step, a.action)>>
    /\ failedAttempts' = failedAttempts + 1
    /\ pc' = "delay"
    /\ UNCHANGED <<gaps, todo, path, synthCalls, synthKnowledge>>

\* lines 416-555: the branch taken for decision a, after the thinking event
\* of lines 408-413
Dispatch(a) ==
    LET thinking == Event("thinking", "reasoning", step, a.action)
    IN
    IF a.action = "search" /\ "searchQueries" \in a.present
    THEN /\ events' = <<thinking,
                        Event("searching", "searching", step, a.searchQueries)>>
         /\ todo' = NextQuery(a.searchQueries, searchQueries)
         /\ pc' = IF todo' = <<>> THEN "delay" ELSE "search"
         /\ UNCHANGED <<gaps, failedAttempts, path, synthCalls, synthKnowledge>>
    ELSE IF a.action = "read" /\ "urlsToRead" \in a.present
    THEN /\ events' = <<thinking,
                        Event("reading", "reading sources", step,
                              Len(a.urlsToRead))>>
         /\ todo' = NextUrl(Slice(a.urlsToRead), visitedUrls)
         /\ pc' = IF todo' = <<>> THEN "delay" ELSE "read"
         /\ UNCHANGED <<gaps, failedAttempts, path, synthCalls, synthKnowledge>>
    ELSE IF a.action = "reflect" /\ "gapQuestions" \in a.present
    THEN /\ events' = <<thinking,
                        Event("reflecting", "gaps", step, Len(a.gapQuestions))>>
                      \o GapEvents(a.gapQuestions, step)
         /\ gaps' = Reflect(gaps, a.gapQuestions, originalQuestion)
         /\ Len(gaps') <= MaxGaps
         /\ pc' = "delay"
         /\ UNCHANGED <<todo, failedAttempts, path, synthCalls, synthKnowledge>>
    ELSE IF a.action = "answer"
    THEN IF IsPremature
         THEN /\ failedAttempts' = failedAttempts + 1
              /\ events' = <<thinking,
                             Event("thinking", "not enough", step, "none")>>
              /\ pc' = "loop"
              /\ UNCHANGED <<gaps, todo, path, synthCalls, synthKnowledge>>
         ELSE /\ events' = <<thinking,
                             Event("thinking", "synthesizing", step, "none")>>
              /\ SynthStart("answer")
              /\ UNCHANGED <<gaps, todo, failedAttempts>>
    ELSE /\ events' = <<thinking>>
         /\ pc' = "delay"
         /\ UNCHANGED <<gaps, todo, failedAttempts, path, synthCalls,
                        synthKnowledge>>

\* lines 406-416 with getAgentAction (246-264) and callLLM (139-172): the
\* policy call returns r; the decision is announced and dispatched
GetAgentAction(U) ==
    /\ UNCHANGED sideVars
    /\ pc = "policy"
    /\ fetched' = NoFetch
    /\ candidates' = <<>>
    /\ \E r \in LLMResponses(U) :
        /\ response' = r
        /\ IF ~r.ok
           THEN /\ Catch
                /\ UNCHANGED <<action, todo, gaps, failedAttempts, path,
                               synthCalls, synthKnowledge>>
           ELSE /\ action' = ParseAction(r, currentQuestion)
                /\ IF action' = JsNull \/ cancelled
                   THEN /\ Catch
                        /\ UNCHANGED <<todo, gaps, failedAttempts, path,
                                       synthCalls, synthKnowledge>>
                   ELSE /\ Dispatch(action')
                        /\ UNCHANGED <<terminals, closed>>
    /\ UNCHANGED <<originalQuestion, currentQuestion, knowledge, visitedUrls,
                   searchQueries, step, availableUrls, report, cancelled,
                   searchCalls, readCalls>>

\* lines 423-453, one pass of the for-loop: the next query not yet issued is
\* recorded and sent to the provider, whose request ends as o; an error
\* thrown by the call would reach the outer catch
TavilySearch(U) ==
    /\ UNCHANGED sideVars
    /\ pc = "search"
    /\ \E o \in SearchOutcomes(U) :
        LET query == Head(todo)
            call == tavilySearch(o)
            res == call.results
        IN  /\ fetched' = o
            /\ candidates' = <<>>
            /\ searchQueries' = searchQueries \cup {query}
            /\ searchCalls' = [searchCalls EXCEPT ![query] = @ + 1]
            /\ IF ~call.threw /\ Len(res) > 0
               THEN /\ availableUrls' = AddUrls(availableUrls, res)
                    /\ knowledge' = Push(knowledge, SearchItem(query, res))
               ELSE UNCHANGED <<availableUrls, knowledge>>
            /\ IF call.threw \/ (Len(res) > 0 /\ cancelled)
               THEN /\ Catch
                    /\ UNCHANGED todo
               ELSE /\ events' = IF Len(res) > 0
                                 THEN <<Event("knowledge", query, step, res)>>
                                 ELSE <<>>
                    /\ todo' = NextQuery(Tail(todo), searchQueries')
                    /\ pc' = IF todo' = <<>> THEN "delay" ELSE "search"
                    /\ UNCHANGED <<terminals, closed>>
    /\ response' = NoResponse
    /\ action' = NoAction
    /\ UNCHANGED <<originalQuestion, currentQuestion, gaps, visitedUrls, step,
                   failedAttempts, path, report, cancelled, synthCalls,
                   synthKnowledge, readCalls>>

\* lines 461-471: the next url not yet visited is recorded, announced and
\* handed to the extractor
ReadBegin ==
    /\ UNCHANGED sideVars
    /\ pc = "read"
    /\ fetched' = NoFetch
    /\ candidates' = <<>>
    /\ LET url == Head(todo)
       IN  /\ visitedUrls' = visitedUrls \cup {url}
           /\ IF cancelled
              THEN /\ Catch
                   /\ UNCHANGED readCalls
              ELSE /\ events' = <<Event("reading", "reading", step, url)>>
                   /\ readCalls' = [readCalls EXCEPT ![url] = @ + 1]
                   /\ pc' = "reading"
                   /\ UNCHANGED <<terminals, closed>>
    /\ response' = NoResponse
    /\ action' = NoAction
    /\ UNCHANGED <<originalQuestion, currentQuestion, gaps, knowledge,
                   searchQueries, step, failedAttempts, availableUrls, path,
                   report, todo, cancelled, synthCalls, synthKnowledge,
                   searchCalls>>

\* lines 471-488: the extractor returns content
ReadUrl ==
    /\ UNCHANGED sideVars
    /\ pc = "reading"
    /\ \E content \in ReadResults :
        LET url == Head(todo)
            truthy == HasContent(content)
        IN  /\ fetched' = Fetch("read", "returned", <<>>, content)
            /\ candidates' = <<>>
            /\ knowledge' = IF truthy THEN Push(knowledge, UrlItem(url))
                            ELSE knowledge
            /\ IF truthy /\ cancelled
               THEN /\ Catch
                    /\ UNCHANGED todo
               ELSE /\ events' = IF truthy
                                 THEN <<Event("knowledge", url, step, url)>>
                                 ELSE <<>>
                    /\ todo' = NextUrl(Tail(todo), visitedUrls)
                    /\ pc' = IF todo' = <<>> THEN "delay" ELSE "read"
                    /\ UNCHANGED <<terminals, closed>>
    /\ UNCHANGED <<originalQuestion, currentQuestion, gaps, visitedUrls,
                   searchQueries, step, failedAttempts, availableUrls, response,
                   action, path, report, cancelled, callVars>>

\* lines 556-557
Delay ==
    /\ UNCHANGED sideVars
    /\ pc = "delay"
    /\ fetched' = NoFetch
    /\ candidates' = <<>>
    /\ pc' = "loop"
    /\ events' = <<>>
    /\ response' = NoResponse
    /\ action' = NoAction
    /\ UNCHANGED <<stateVars, path, report, todo, terminals, closed, cancelled,
                   callVars>>

\* lines 534-553 and 567-585: synthesizeReport returns the report (ok) or
\* throws; the answer event and close(), or the outer catch
SynthesizeReport ==
    /\ UNCHANGED sideVars
    /\ pc = "synth"
    /\ fetched' = NoFetch
    /\ candidates' = <<>>
    /\ \E ok \in BOOLEAN :
        /\ report' = IF ok THEN "report" ELSE "<threw>"
        /\ IF ok /\ ~cancelled
           THEN /\ events' = <<Event("answer",
                                     IF path = "answer" THEN "complete"
                                     ELSE "complete (max depth reached)",
                                     step, Stats)>>
                /\ terminals' = terminals + 1
                /\ closed' = TRUE
                /\ pc' = AnswerExit
           ELSE Catch
    /\ response' = NoResponse
    /\ action' = NoAction
    /\ UNCHANGED <<stateVars, path, todo, cancelled, callVars>>

\* the consumer abandons the stream while start() awaits a collaborator or
\* the timer
Cancel ==
    /\ UNCHANGED sideVars
    /\ pc \in {"policy", "search", "reading", "delay", "synth"}
    /\ ~cancelled
    /\ cancelled' = TRUE
    /\ UNCHANGED <<stateVars, pc, response, action, path, report, todo, events,
                   terminals, closed, callVars, fetched, candidates>>

Run(U) ==
    \/ Start
    \/ StepBegin
    \/ LoopExit
    \/ GetAgentAction(U)
    \/ TavilySearch(U)
    \/ ReadBegin
    \/ ReadUrl
    \/ Delay
    \/ SynthesizeReport

Next(U) == Run(U) \/ Cancel

\* every input of the model at once
SpecFull == Init /\ [][Next(Full)]_vars

Spec == Init /\ [][Next(Control)]_vars

SpecGaps == Init /\ [][Next(Gaps)]_vars

SpecData == Init /\ [][Next(Data)]_vars

SpecReads == Init /\ [][Next(Reads)]_vars

SpecSearch == Init /\ [][Next(Search)]_vars

SpecOrder == Init /\ [][Next(Order)]_vars

SpecCap == Init /\ [][Next(Cap)]_vars

\* serve() from the arrival of the request
NextServe == Serve \/ Next(Short)

SpecServe == InitServe /\ [][NextServe]_vars

\* an awaited collaborator call or timer settles and start() resumes
FairSpec == Init /\ [][Next(Short)]_vars /\ WF_vars(Run(Short))

-----------------------------------------------------------------------------
(* The page: Index.handleResearch and handleNewResearch, src/unnamed/       *)
(* part_001 lines 38-125, reading what sendEvent (index.ts 366-368) wrote.  *)

MaxStream == 3

LF == "<LF>"

\* the characters of 'data: '
DataPrefix == <<"d", "a", "t", "a", ":", " ">>

ClientEvent(type, message, data) ==
    [type |-> type, message |-> message, data |-> data]

\* events of the server: a plain one, one whose message holds a line feed,
\* one whose message holds a two-byte character, the two final ones
WireEvents ==
    { ClientEvent("thinking", "plain", "none"),
      ClientEvent("knowledge", "lineFeed", "none"),
      ClientEvent("progress", "accent", "none"),
      ClientEvent("answer", "plain", "report"),
      ClientEvent("error", "plain", "none") }

\* what one run of the server emits: a final event is its last event
Streams ==
    { s \in SeqsUpTo(WireEvents, MaxStream) :
        \A i \in 1..(Len(s) - 1) : s[i].type \notin {"answer", "error"} }

\* JSON.stringify(event), as characters: the type, the message (a line feed
\* is written as the two characters \ and n), the data if any
Stringify(e) ==
    <<"{", e.type>>
    \o (IF e.message = "lineFeed" THEN <<"\\", "n">>
        ELSE IF e.message = "accent" THEN <<"e'">>
        ELSE <<"m">>)
    \o (IF e.data = "none" THEN <<>> ELSE <<e.data>>)
    \o <<"}">>

SyntaxError == ClientEvent("<SyntaxError>", "", "none")

\* JSON.parse of a line's payload: the event written, or a SyntaxError
Parse(chars) ==
    IF \E e \in WireEvents : Stringify(e) = chars
    THEN CHOOSE e \in WireEvents : Stringify(e) = chars
    ELSE SyntaxError

RECURSIVE Encode(_)
\* TextEncoder.encode: UTF-8, two bytes for the accented character
Encode(chars) ==
    IF chars = <<>> THEN <<>>
    ELSE (IF Head(chars) = "e'" THEN <<"c3", "a9">> ELSE <<Head(chars)>>)
         \o Encode(Tail(chars))

\* index.ts line 367: the bytes sendEvent enqueues for event e
Frame(e) == Encode(DataPrefix \o Stringify(e) \o <<LF, LF>>)

RECURSIVE Bytes(_)
\* the response body of a run that emitted the events s
Bytes(s) == IF s = <<>> THEN <<>> ELSE Frame(Head(s)) \o Bytes(Tail(s))

RECURSIVE Decode(_)
\* decoder.decode(value, {stream: true}) on the held-back bytes followed by
\* the chunk: the characters, and the incomplete character held back
Decode(bytes) ==
    IF bytes = <<>> THEN [chars |-> <<>>, pending |-> <<>>]
    ELSE IF Head(bytes) = "c3"
    THEN IF Len(bytes) = 1 THEN [chars |-> <<>>, pending |-> bytes]
         ELSE IF bytes[2] = "a9"
         THEN LET d == Decode(Tail(Tail(bytes)))
              IN  [d EXCEPT !.chars = <<"e'">> \o @]
         ELSE LET d == Decode(Tail(bytes))
              IN  [d EXCEPT !.chars = <<"<U+FFFD>">> \o @]
    ELSE IF Head(bytes) = "a9"
    THEN LET d == Decode(Tail(bytes))
         IN  [d EXCEPT !.chars = <<"<U+FFFD>">> \o @]
    ELSE LET d == Decode(Tail(bytes))
         IN  [d EXCEPT !.chars = <<Head(bytes)>> \o @]

\* the place of the first line feed of chars, 0 if there is none
FirstLF(chars) ==
    IF \E i \in 1..Len(chars) : chars[i] = LF
    THEN CHOOSE i \in 1..Len(chars) :
            chars[i] = LF /\ \A j \in 1..(i - 1) : chars[j] # LF
    ELSE 0

RECURSIVE Lines(_)
\* lines 71-72: buffer.split('\n') without its last element
Lines(chars) ==
    LET i == FirstLF(chars)
    IN  IF i = 0 THEN <<>>
        ELSE <<SubSeq(chars, 1, i - 1)>>
             \o Lines(SubSeq(chars, i + 1, Len(chars)))

\* the unfinished line dropped
RestMutant(chars) == <<>>

RECURSIVE Rest(_)
\* line 72: lines.pop() || '', the unfinished line kept for the next chunk
Rest(chars) ==
    LET i == FirstLF(chars)
    IN  IF i = 0 THEN chars ELSE Rest(SubSeq(chars, i + 1, Len(chars)))

\* line.startsWith('data: ')
StartsWithData(line) ==
    /\ Len(line) >= Len(DataPrefix)
    /\ SubSeq(line, 1, Len(DataPrefix)) = DataPrefix

\* an error event taken for an ordinary one
OnEventMutant(st, e) == [st EXCEPT !.events = Append(@, e)]

\* lines 77-92: the event is appended; an answer with data sets the report
\* and completes; an error event throws
OnEvent(st, e) ==
    LET shown == [st EXCEPT !.events = Append(@, e)]
        answered ==
            IF e.type = "answer" /\ e.data # "none"
            THEN [shown EXCEPT !.reportData = e.data, !.appState = "complete"]
            ELSE shown
    IN  IF e.type = "error" THEN [answered EXCEPT !.threw = TRUE]
        ELSE answered

RECURSIVE Consume(_, _)
\* lines 74-101: the for-loop over the lines, left when an event throws; a
\* line that is no data line or does not parse is passed over
Consume(lines, st) ==
    IF lines = <<>> \/ st.threw THEN st
    ELSE LET line == Head(lines)
             e == Parse(SubSeq(line, Len(DataPrefix) + 1, Len(line)))
         IN  IF StartsWithData(line) /\ e # SyntaxError
             THEN Consume(Tail(lines), OnEvent(st, e))
             ELSE Consume(Tail(lines), st)

\* the page is loaded
InitClient ==
    /\ request = Request("POST", TRUE, TRUE, "object", "T")
    /\ reply = NoReply
    /\ NoRun("remote")
    /\ ClientIdle
    /\ NoTruncate

\* lines 38-44: the form is submitted (it is shown while appState is idle)
HandleResearch ==
    /\ UNCHANGED <<serveVars, truncVars>>
    /\ appState = "idle"
    /\ cpc \in {"idle", "returned"}
    /\ appState' = "researching"
    /\ clientEvents' = <<>>
    /\ reportData' = "null"
    /\ cpc' = "fetch"
    /\ UNCHANGED <<sent, wire, buffer, pending>>

\* lines 46-67 and 104-112: fetch settles: a stream of the server, or a
\* rejection, a non-OK status or a missing body, which are thrown and caught
FetchSettles ==
    /\ UNCHANGED <<serveVars, truncVars>>
    /\ cpc = "fetch"
    /\ \/ \E s \in Streams :
            /\ sent' = s
            /\ wire' = Bytes(s)
            /\ buffer' = <<>>
            /\ pending' = <<>>
            /\ cpc' = "read"
            /\ UNCHANGED <<appState, clientEvents, reportData>>
       \/ /\ appState' = "idle"
          /\ cpc' = "returned"
          /\ UNCHANGED <<clientEvents, reportData, sent, wire, buffer, pending>>

\* lines 69-103 and 104-112, one pass of the while-loop: a chunk of k bytes
\* is read, decoded and split, and its finished lines are handled; an error
\* event ends the handler in its catch
ReadChunk ==
    /\ UNCHANGED <<serveVars, truncVars>>
    /\ cpc = "read"
    /\ wire # <<>>
    /\ \E k \in 1..Len(wire) :
        LET d == Decode(pending \o SubSeq(wire, 1, k))
            chars == buffer \o d.chars
            st == Consume(Lines(chars),
                          [events |-> clientEvents, appState |-> appState,
                           reportData |-> reportData, threw |-> FALSE])
        IN  /\ wire' = SubSeq(wire, k + 1, Len(wire))
            /\ pending' = d.pending
            /\ buffer' = Rest(chars)
            /\ clientEvents' = st.events
            /\ reportData' = st.reportData
            /\ appState' = IF st.threw THEN "idle" ELSE st.appState
            /\ cpc' = IF st.threw THEN "returned" ELSE "read"
    /\ UNCHANGED sent

\* lines 69-70: the stream is done and the handler returns
ReadDone ==
    /\ UNCHANGED <<serveVars, truncVars>>
    /\ cpc = "read"
    /\ wire = <<>>
    /\ cpc' = "returned"
    /\ UNCHANGED <<appState, clientEvents, reportData, sent, wire, buffer,
                   pending>>

\* lines 119-125: the button of the report (shown while appState is complete
\* and reportData is set)
HandleNewResearch ==
    /\ UNCHANGED <<serveVars, truncVars>>
    /\ appState = "complete"
    /\ reportData # "null"
    /\ appState' = "idle"
    /\ clientEvents' = <<>>
    /\ reportData' = "null"
    /\ UNCHANGED <<cpc, sent, wire, buffer, pending>>

NextClient ==
    \/ HandleResearch
    \/ FetchSettles
    \/ ReadChunk
    \/ ReadDone
    \/ HandleNewResearch

SpecClient == InitClient /\ [][NextClient]_vars

-----------------------------------------------------------------------------
(* truncateToTokens, index.ts lines 68-72 (the same in src/unnamed/         *)
(* part_002 lines 20-25), on texts as sequences of characters.              *)

MaxTokens == 2
MaxText == 9

CharsPerToken == 4

Ellipsis == <<".", ".", ".">>

\* the ellipsis left out
truncateToTokensMutant(t, m) ==
    SubSeq(t, 1, Min(Len(t), m * CharsPerToken))

truncateToTokens(t, m) ==
    LET maxChars == m * CharsPerToken
    IN  IF Len(t) <= maxChars THEN t
        ELSE SubSeq(t, 1, maxChars) \o Ellipsis

\* a text and a budget, as the call sites of lines 100, 128 and 178 pass: a
\* string and a positive number of tokens
InitTruncate ==
    /\ request = Request("POST", TRUE, TRUE, "object", "T")
    /\ reply = NoReply
    /\ NoRun("remote")
    /\ ClientIdle
    /\ text \in SeqsUpTo({"a", "."}, MaxText)
    /\ maxTokens \in 1..MaxTokens
    /\ once = <<>>
    /\ twice = <<>>
    /\ tpc = "idle"

\* the text is truncated
Truncate ==
    /\ tpc = "idle"
    /\ once' = truncateToTokens(text, maxTokens)
    /\ tpc' = "once"
    /\ UNCHANGED <<serveVars, clientVars, text, maxTokens, twice>>

\* the result is truncated again, with the same budget
TruncateAgain ==
    /\ tpc = "once"
    /\ twice' = truncateToTokens(once, maxTokens)
    /\ tpc' = "twice"
    /\ UNCHANGED <<serveVars, clientVars, text, maxTokens, once>>

NextTruncate == Truncate \/ TruncateAgain

SpecTruncate == InitTruncate /\ [][NextTruncate]_vars

-----------------------------------------------------------------------------
(* Properties. The definitions above whose names end in Mutant are slips   *)
(* of the definition that follows them; each property below is violated    *)
(* when one of them takes the place of the code it is about.               *)

NoEvent == [type |-> "<none>", message |-> "<none>"]

\* the last event the latest action enqueued
FinalEvent == IF events = <<>> THEN NoEvent ELSE events[Len(events)]

\* the run is over and the consumer stayed to its end
Finished == pc = "done" /\ ~cancelled

\* C1: the loop body runs at most MAX_STEPS times and at most
\* MAX_FAILED_ATTEMPTS premature answers are rejected, and every run reaches
\* its end; unless the consumer cancelled, a final event has then been
\* emitted and the sink is closed.
C1_Termination ==
    /\ [](step <= MAX_STEPS /\ failedAttempts <= MAX_FAILED_ATTEMPTS)
    /\ <>(pc = "done")
    /\ [](Finished => terminals = 1 /\ closed /\ IsTerminal(FinalEvent))

C1_Witness ==
    /\ Finished
    /\ step = MAX_STEPS
    /\ failedAttempts = MAX_FAILED_ATTEMPTS - 1
    /\ closed
    /\ terminals = 1

\* C2 as stated: every non-cancelled run has attempted exactly one
\* synthesis call when its final event is out, whatever the event's kind.
C2_Original == Finished => synthCalls = 1

\* C2 amended: at most one synthesis call is attempted in a run and it is
\* started before the final event is emitted; a run whose final event is an
\* answer attempted exactly one, a run whose final event is an error
\* attempted one if the synthesis threw and none if the run failed before.
C2_SynthesisBeforeFinal ==
    /\ [](synthCalls <= 1)
    /\ [](Finished /\ FinalEvent.type = "answer" => synthCalls = 1)
    /\ [](Finished /\ FinalEvent.type = "error" =>
            (synthCalls = 1 <=> report = "<threw>"))
    /\ [][terminals' > terminals => synthCalls' = synthCalls]_vars

C2_Witness ==
    /\ Finished
    /\ FinalEvent.type = "error"
    /\ synthCalls = 0
    /\ step > 2

\* C3: at the end of every step (the delay, or the continue of a rejected
\* answer) the original question is queued in gaps or is the current
\* question. Before the first reflect gaps is empty and nothing is dequeued.
C3_GapNonStarvation ==
    (pc \in {"delay", "loop"} /\ step > 0) =>
        (HasQuestion(gaps, originalQuestion) \/ currentQuestion = originalQuestion)

\* C4 as stated: after the rejection of a premature answer the loop
\* continues, that is its guard holds and another iteration runs.
C4_Original ==
    (action.action = "answer" /\ pc = "loop") => LoopCondition

\* C4 amended: an answer decision processed with fewer than 3 knowledge
\* items starts no synthesis, emits no final event, adds exactly 1 to
\* failedAttempts and returns to the loop guard; another iteration runs
\* unless failedAttempts thereby reached MAX_FAILED_ATTEMPTS or step is
\* MAX_STEPS.
C4_PrematureAnswerGate ==
    /\ [][(/\ pc = "policy"
           /\ ~cancelled
           /\ response'.ok
           /\ action'.action = "answer"
           /\ Len(knowledge) < MIN_KNOWLEDGE)
          => (/\ failedAttempts' = failedAttempts + 1
              /\ synthCalls' = synthCalls
              /\ terminals' = terminals
              /\ ~closed'
              /\ pc' = "loop"
              /\ \A i \in 1..Len(events') : ~IsTerminal(events'[i]))]_vars
    /\ []((/\ action.action = "answer"
           /\ pc = "loop"
           /\ failedAttempts < MAX_FAILED_ATTEMPTS
           /\ step < MAX_STEPS) => ENABLED StepBegin)

C4_Witness ==
    /\ action.action = "answer"
    /\ pc = "loop"
    /\ failedAttempts = 1
    /\ Len(knowledge) = 1
    /\ step = 2

\* C5: the search provider is called on a query only if the query was not
\* in searchQueries, so at most once per query; a knowledge item of a search
\* is only ever added for a query that was not in searchQueries.
C5_NoDuplicateSearch ==
    /\ [](\A q \in Questions : searchCalls[q] <= 1)
    /\ [][\A q \in Questions :
            searchCalls'[q] # searchCalls[q] => q \notin searchQueries]_vars
    /\ [][(pc = "search" /\ knowledge' # knowledge) =>
            (/\ Head(todo) \notin searchQueries
             /\ knowledge' = Append(knowledge, knowledge'[Len(knowledge')])
             /\ knowledge'[Len(knowledge')].question = Head(todo))]_vars
    /\ [][(pc = "policy" /\ pc' = "delay" /\ action'.action = "search") =>
            (knowledge' = knowledge /\ searchCalls' = searchCalls)]_vars

\* a search decision whose queries were all issued before: no call follows
C5_Witness ==
    /\ action.action = "search"
    /\ Len(action.searchQueries) = 2
    /\ pc = "delay"
    /\ \A q \in {"T", "A"} : searchCalls[q] = 1

\* C6: the content extractor is called on a url only if the url was not in
\* visitedUrls, so at most once per url, also when its first extraction
\* gave no content.
C6_NoDuplicateVisit ==
    /\ [](\A u \in Urls : readCalls[u] <= 1)
    /\ [][\A u \in Urls :
            readCalls'[u] # readCalls[u] =>
                (u \notin visitedUrls /\ u \in visitedUrls')]_vars
    /\ [][visitedUrls \subseteq visitedUrls']_vars

\* a read decision for a url whose only extraction gave nothing: skipped
C6_Witness ==
    /\ action.action = "read"
    /\ Len(action.urlsToRead) > 0
    /\ pc = "delay"
    /\ readCalls["u1"] = 1
    /\ \A i \in 1..Len(knowledge) : knowledge[i].type # "url"

\* C7: a run emits at most one answer or error event and no event follows
\* it; a run that ended without the consumer cancelling has emitted exactly
\* one, and it is its last event.
C7_OneTerminalEvent ==
    /\ [](terminals <= 1)
    /\ [][terminals >= 1 => (events' = events /\ terminals' = terminals)]_vars
    /\ [][terminals' > terminals =>
            (/\ terminals' = terminals + 1
             /\ events' # <<>>
             /\ IsTerminal(events'[Len(events')])
             /\ \A i \in 1..(Len(events') - 1) : ~IsTerminal(events'[i]))]_vars
    /\ [][terminals' = terminals =>
            \A i \in 1..Len(events') :
                events' # events => ~IsTerminal(events'[i])]_vars
    /\ [](Finished => terminals = 1 /\ IsTerminal(FinalEvent) /\ closed)

C7_Witness ==
    /\ Finished
    /\ terminals = 1
    /\ FinalEvent.type = "answer"
    /\ path = "answer"

\* C8: when the loop is left on its guard, synthesizeReport is called with
\* the knowledge there is; if it returns, the one terminal event is an answer
\* whose step is the final step and whose statistics are the state's counts.
\* After 25 steps without knowledge that is step 25 and knowledgeItems 0.
C8_BudgetExhaustion ==
    /\ (path = "budget" =>
            /\ synthCalls = 1
            /\ synthKnowledge = knowledge
            /\ (step = MAX_STEPS \/ failedAttempts = MAX_FAILED_ATTEMPTS))
    /\ (path = "budget" /\ report = "report" /\ ~cancelled =>
            /\ pc = "done"
            /\ terminals = 1
            /\ events = <<FinalEvent>>
            /\ FinalEvent.type = "answer"
            /\ FinalEvent.step = step
            /\ FinalEvent.data.totalSteps = step
            /\ FinalEvent.data.knowledgeItems = Len(knowledge)
            /\ FinalEvent.data.urlsVisited = Cardinality(visitedUrls)
            /\ FinalEvent.data.searchesPerformed = Cardinality(searchQueries)
            /\ (step = MAX_STEPS /\ knowledge = <<>> =>
                    FinalEvent.step = 25 /\ FinalEvent.data.knowledgeItems = 0))

C8_Witness ==
    /\ path = "budget"
    /\ report = "report"
    /\ ~cancelled
    /\ step = MAX_STEPS
    /\ failedAttempts = 0
    /\ knowledge = <<>>
    /\ FinalEvent.type = "answer"

\* C9: whenever the content callLLM returns is no structurally valid
\* decision, getAgentAction returns the default decision, a search for the
\* current question, and the run does not end in an error event on it.
C9_MalformedNeverFatal ==
    (response.ok /\ (response.text \in {"notJson", "null"}
                     \/ (response.text = "object" /\ response.value \in OddDecisions)))
        => (action = DefaultAction(currentQuestion) /\ terminals = 0)

\* C10: when synthesizeReport throws, on either path, the run ends with
\* exactly one terminal event, an error; no answer event is emitted and the
\* synthesis was called once.
C10_SynthesisFailure ==
    (report = "<threw>" /\ ~cancelled) =>
        /\ pc = "done"
        /\ events = <<ErrorEvent>>
        /\ terminals = 1
        /\ closed
        /\ synthCalls = 1

C10_Witness ==
    /\ report = "<threw>"
    /\ ~cancelled
    /\ path = "answer"
    /\ events = <<ErrorEvent>>

\* C11: when the policy call throws (callLLM on a non-OK response) the
\* exception is caught once: one error event is enqueued and the sink is
\* closed; after the error event no step is begun, no collaborator is called
\* and no event is enqueued.
C11_CollaboratorException ==
    /\ []((~response.ok /\ ~cancelled) =>
            (/\ pc = "done"
             /\ events = <<ErrorEvent>>
             /\ terminals = 1
             /\ closed))
    /\ [][FinalEvent = ErrorEvent =>
            (/\ pc' = "done"
             /\ step' = step
             /\ callVars' = callVars
             /\ events' = events)]_vars

\* the policy call fails after two steps that gathered knowledge
C11_Witness ==
    /\ ~response.ok
    /\ ~cancelled
    /\ pc = "done"
    /\ step = 3
    /\ Len(knowledge) = 2
    /\ synthCalls = 0
    /\ closed

\* C12: an answer decision processed with at least 3 knowledge items calls
\* synthesizeReport once over the whole knowledge list; when it returns, one
\* answer event is emitted in that step whose statistics are the state's
\* counts, so knowledgeItems is at least 3, and the run is over.
C12_AnswerPath ==
    /\ [][(/\ pc = "policy"
           /\ ~cancelled
           /\ response'.ok
           /\ action'.action = "answer"
           /\ Len(knowledge) >= MIN_KNOWLEDGE)
          => (/\ pc' = "synth"
              /\ path' = "answer"
              /\ synthCalls' = synthCalls + 1
              /\ synthKnowledge' = knowledge
              /\ failedAttempts' = failedAttempts)]_vars
    /\ [](path = "answer" =>
            (/\ synthCalls = 1
             /\ synthKnowledge = knowledge
             /\ Len(knowledge) >= MIN_KNOWLEDGE))
    /\ []((path = "answer" /\ report = "report" /\ ~cancelled) =>
            (/\ pc = "done"
             /\ closed
             /\ terminals = 1
             /\ events = <<FinalEvent>>
             /\ FinalEvent.type = "answer"
             /\ FinalEvent.step = step
             /\ FinalEvent.data.totalSteps = step
             /\ FinalEvent.data.knowledgeItems = Len(knowledge)
             /\ FinalEvent.data.urlsVisited = Cardinality(visitedUrls)
             /\ FinalEvent.data.searchesPerformed = Cardinality(searchQueries)
             /\ FinalEvent.data.knowledgeItems >= 3))

\* an answer accepted at exactly 3 items, after one rejected answer
C12_Witness ==
    /\ path = "answer"
    /\ report = "report"
    /\ ~cancelled
    /\ FinalEvent.type = "answer"
    /\ Len(knowledge) = MIN_KNOWLEDGE
    /\ failedAttempts = 1
    /\ Cardinality(visitedUrls) = 1

\* C13: once the consumer has cancelled the stream, the call in flight may
\* settle but the loop starts no further collaborator call (pc = "policy",
\* "search", "reading" and "synth" are the awaits of callLLM, tavilySearch,
\* readUrl and synthesizeReport), and the run ends without an answer or
\* error event.
C13_Cancellation ==
    /\ [][cancelled =>
            (/\ pc' \notin {"policy", "search", "reading", "synth"}
             /\ readCalls' = readCalls
             /\ synthCalls' = synthCalls)]_vars
    /\ [][cancelled =>
            (/\ terminals' = terminals
             /\ \A i \in 1..Len(events') : ~IsTerminal(events'[i]))]_vars
    /\ []((cancelled /\ pc = "done") => (terminals = 0 /\ ~closed))

HasStep(e) == "step" \in DOMAIN e

\* the step values of a list of events never decrease along the list
StepsAscend(list) ==
    \A i, j \in 1..Len(list) :
        (i < j /\ HasStep(list[i]) /\ HasStep(list[j])) =>
            list[i].step <= list[j].step

\* C14: the step values of the events of a run never decrease, and the first
\* event is the start event of step 0. Every event enqueued so far carries a
\* step no greater than the step counter; the events an action enqueues carry
\* steps no smaller than the counter before the action, in ascending order;
\* the counter never decreases.
C14_StepsNonDecreasing ==
    /\ [](\A i \in 1..Len(events) : HasStep(events[i]) => events[i].step <= step)
    /\ [][/\ StepsAscend(events')
          /\ \A i \in 1..Len(events') :
                HasStep(events'[i]) => events'[i].step >= step
          /\ step' >= step]_vars
    /\ [](pc = "start" => events = <<>>)
    /\ [][pc = "start" =>
            (/\ Len(events') = 1
             /\ events'[1].type = "thinking"
             /\ events'[1].step = 0)]_vars

\* the two events of the top of step 3, after the events of steps 0 to 2
C14_Witness ==
    /\ pc = "policy"
    /\ step = 3
    /\ Len(events) = 2
    /\ events[1].type = "progress"
    /\ events[1].step = 3
    /\ events[2].step = 3

C16_BreadthBeforeDepth ==
    /\ [](step <= 2 => currentQuestion = originalQuestion)
    /\ [][(pc = "loop" /\ pc' = "policy" /\ step' <= 2) =>
            (/\ gaps' = gaps
             /\ currentQuestion' = originalQuestion
             /\ Len(events') = 1
             /\ events'[1].type = "progress")]_vars
    /\ [][(pc = "loop" /\ pc' = "policy" /\ step' > 2 /\ gaps # <<>>) =>
            (/\ gaps' = Tail(gaps)
             /\ currentQuestion' = gaps[1].question
             /\ Len(events') = 2
             /\ events'[2].type = "thinking"
             /\ events'[2].data = gaps[1].question
             /\ events'[2].step = step')]_vars
    /\ [][(pc = "loop" /\ pc' = "policy" /\ gaps = <<>>) =>
            (gaps' = gaps /\ currentQuestion' = currentQuestion)]_vars
    /\ [][pc # "loop" => currentQuestion' = currentQuestion]_vars

\* step 3 takes the front of the queue a reflect of step 1 or 2 built
C16_Witness ==
    /\ pc = "policy"
    /\ step = 3
    /\ currentQuestion = "A"
    /\ Len(gaps) = 2
    /\ gaps[1].question = "B"
    /\ gaps[2] = MainGap(originalQuestion)
    /\ Len(events) = 2

\* C17: a search decision all of whose queries were issued before emits no
\* event on account of them: neither a searching nor a knowledge event is
\* enqueued in that step.
C17_SilentSkip ==
    [][(/\ pc = "policy"
        /\ ~cancelled
        /\ response'.ok
        /\ action'.action = "search"
        /\ "searchQueries" \in action'.present
        /\ action'.searchQueries # <<>>
        /\ \A i \in 1..Len(action'.searchQueries) :
              action'.searchQueries[i] \in searchQueries)
       => (/\ pc' = "delay"
           /\ \A i \in 1..Len(events') :
                 events'[i].type \notin {"searching", "knowledge"})]_vars

\* C18: when the request of tavilySearch fails (a non-OK status, or fetch or
\* the parse of the body throws) the call returns an empty list and throws
\* nothing: no knowledge item and no candidate url is added for the query, no
\* event and in particular no error event is enqueued, the sink stays open,
\* and the loop goes on with the next query not yet issued or, after the
\* last, with the delay that ends the step.
C18_SearchErrorRecovered ==
    /\ [][(/\ pc = "search"
           /\ searchCalls' # searchCalls
           /\ fetched'.kind \in {"threw", "notOk"}) =>
            (/\ knowledge' = knowledge
             /\ availableUrls' = availableUrls
             /\ events' = <<>>
             /\ terminals' = terminals
             /\ closed' = closed
             /\ step' = step
             /\ pc' \in {"search", "delay"}
             /\ (pc' = "search" =>
                    (/\ todo' # <<>>
                     /\ Head(todo') \notin searchQueries'
                     /\ Head(todo') # Head(todo)))
             /\ (pc' = "delay" =>
                    \A i \in 1..Len(Tail(todo)) :
                        Tail(todo)[i] \in searchQueries'))]_vars
    /\ []((fetched.call = "search" /\ fetched.kind \in {"threw", "notOk"}) =>
            (pc \in {"search", "delay"} /\ terminals = 0 /\ ~closed))

\* the request for T threw; the loop is at the next query, A
C18_Witness ==
    /\ fetched.call = "search"
    /\ fetched.kind = "threw"
    /\ pc = "search"
    /\ searchCalls["T"] = 1
    /\ Head(todo) = "A"
    /\ knowledge = <<>>
    /\ availableUrls = <<>>
    /\ terminals = 0

\* C19: when readUrl returns null or the empty string no knowledge item is
\* added, no event and in particular no error event is enqueued, the run
\* does not end, and the loop goes on with the next url not yet visited or,
\* after the last, with the delay that ends the step.
C19_ExtractionFailure ==
    /\ [][(/\ pc = "reading"
           /\ pc' # "reading"
           /\ fetched'.content \in {"", "null"}) =>
            (/\ knowledge' = knowledge
             /\ events' = <<>>
             /\ terminals' = terminals
             /\ closed' = closed
             /\ step' = step
             /\ pc' \in {"read", "delay"}
             /\ (pc' = "read" =>
                    (/\ todo' # <<>>
                     /\ Head(todo') \notin visitedUrls
                     /\ Head(todo') # Head(todo)))
             /\ (pc' = "delay" =>
                    \A i \in 1..Len(Tail(todo)) :
                        Tail(todo)[i] \in visitedUrls))]_vars
    /\ []((fetched.call = "read" /\ fetched.content \in {"", "null"}) =>
            (pc \in {"read", "delay"} /\ terminals = 0 /\ ~closed))

\* the extraction of u1 gave the empty string; the loop is at the next url
C19_Witness ==
    /\ fetched.call = "read"
    /\ fetched.content = ""
    /\ pc = "read"
    /\ Head(todo) = "u2"
    /\ readCalls["u1"] = 1
    /\ knowledge = <<>>
    /\ terminals = 0

\* C20: a read decision leads to at most MAX_URLS_PER_STEP calls of readUrl
\* in its step, all on urls among the first MAX_URLS_PER_STEP entries of the
\* proposed list. The urls left to read after the decision are at most that
\* many and all among those entries; readUrl is only called on the first url
\* left, and when the call returns that url is dropped from those left.
C20_ReadCap ==
    /\ [][(/\ pc = "policy"
           /\ pc' \in {"read", "delay"}
           /\ action'.action = "read"
           /\ "urlsToRead" \in action'.present) =>
            LET list == action'.urlsToRead
            IN  /\ Len(todo') <= MAX_URLS_PER_STEP
                /\ \A i \in 1..Len(todo') :
                      \E j \in 1..MAX_URLS_PER_STEP :
                          j <= Len(list) /\ list[j] = todo'[i]
                /\ (pc' = "read" <=> todo' # <<>>)]_vars
    /\ [][readCalls' # readCalls =>
            (/\ pc = "read"
             /\ pc' = "reading"
             /\ readCalls' = [readCalls EXCEPT ![Head(todo)] = @ + 1]
             /\ todo' = todo)]_vars
    /\ [][pc = "read" => todo' = todo]_vars
    /\ [][(pc = "reading" /\ pc' # "reading") =>
            (\/ pc' = "done"
             \/ /\ Len(todo') < Len(todo)
                /\ todo' = SubSeq(todo, Len(todo) - Len(todo') + 1, Len(todo))
                /\ (pc' = "read" <=> todo' # <<>>))]_vars
    /\ [](pc \in {"read", "reading"} =>
            (todo # <<>> /\ Len(todo) <= MAX_URLS_PER_STEP))

\* the third call of step 1 is awaited
C20_Witness ==
    /\ pc = "reading"
    /\ step = 1
    /\ Len(todo) = 1
    /\ \A u \in {"u1", "u2", "u3"} : readCalls[u] = 1
    /\ visitedUrls = {"u1", "u2", "u3"}

\* C21: step stays within 0..MAX_STEPS and failedAttempts within
\* 0..MAX_FAILED_ATTEMPTS; step grows by exactly 1 when a loop iteration
\* begins and changes at no other time; failedAttempts grows by exactly 1
\* when a premature answer is rejected and changes at no other time.
C21_CounterInvariants ==
    /\ [](step \in 0..MAX_STEPS /\ failedAttempts \in 0..MAX_FAILED_ATTEMPTS)
    /\ [][(pc = "loop" /\ step < MAX_STEPS
            /\ failedAttempts < MAX_FAILED_ATTEMPTS) => step' = step + 1]_vars
    /\ [][step' # step =>
            (/\ step' = step + 1
             /\ pc = "loop"
             /\ step < MAX_STEPS
             /\ failedAttempts < MAX_FAILED_ATTEMPTS)]_vars
    /\ [][failedAttempts' # failedAttempts =>
            (/\ failedAttempts' = failedAttempts + 1
             /\ pc = "policy"
             /\ action'.action = "answer"
             /\ Len(knowledge) < MIN_KNOWLEDGE
             /\ pc' = "loop")]_vars
    /\ [][(/\ pc = "policy"
           /\ ~cancelled
           /\ response'.ok
           /\ action'.action = "answer"
           /\ Len(knowledge) < MIN_KNOWLEDGE) =>
            failedAttempts' = failedAttempts + 1]_vars

\* both counters at their bounds: the third rejection fell in step 25
C21_Witness ==
    /\ step = MAX_STEPS
    /\ failedAttempts = MAX_FAILED_ATTEMPTS
    /\ pc = "loop"

IsPrefix(a, b) == Len(a) <= Len(b) /\ a = SubSeq(b, 1, Len(a))

\* C22: knowledge is append-only: across every transition the knowledge list
\* before is a prefix of the list after, which is at most one item longer;
\* visitedUrls and searchQueries only grow.
C22_AppendOnly ==
    /\ [][/\ IsPrefix(knowledge, knowledge')
          /\ Len(knowledge') <= Len(knowledge) + 1]_vars
    /\ [][visitedUrls \subseteq visitedUrls'
          /\ searchQueries \subseteq searchQueries']_vars

\* a search item, a url item and a second search item, in that order
C22_Witness ==
    /\ Len(knowledge) = 3
    /\ knowledge[1].type = "search"
    /\ knowledge[2].type = "url"
    /\ knowledge[3].type = "search"
    /\ visitedUrls = {"u1"}
    /\ searchQueries = {"T", "A"}

Range(list) == { list[i] : i \in 1..Len(list) }

\* C23: when tavilySearch returns for a newly issued query, exactly one item
\* of kind search is appended to knowledge if the results are not empty
\* (question the query, sources the result urls in order) and none if they
\* are empty; the candidate pool keeps its entries and gets, once each,
\* the result urls it did not hold.
C23_SearchKnowledge ==
    [][(pc = "search" /\ searchCalls' # searchCalls) =>
        LET query == Head(todo)
            res == fetched'.results
            added == SubSeq(availableUrls', Len(availableUrls) + 1,
                            Len(availableUrls'))
        IN  /\ query \notin searchQueries
            /\ query \in searchQueries'
            /\ knowledge' = IF res = <<>> THEN knowledge
                            ELSE knowledge \o <<[question |-> query,
                                                 answer |-> "snippets",
                                                 sources |-> res,
                                                 type |-> "search"]>>
            /\ IsPrefix(availableUrls, availableUrls')
            /\ Range(res) \subseteq Range(availableUrls')
            /\ Range(added) = Range(res) \ Range(availableUrls)
            /\ Len(added) = Cardinality(Range(added))]_vars

\* T found u1 twice, then A found u2 and u1: two items, a pool of two
C23_Witness ==
    /\ Len(knowledge) = 2
    /\ knowledge[1] = SearchItem("T", <<"u1", "u1">>)
    /\ knowledge[2] = SearchItem("A", <<"u2", "u1">>)
    /\ availableUrls = <<"u1", "u2">>
    /\ fetched.results = <<"u2", "u1">>

\* C24: every loop iteration that does not end the run is followed by the
\* inter-step delay before the next one begins, the iterations that reject a
\* premature answer included: the loop guard is only reached from the start
\* of the run or from the delay.
C24_DelayEveryIteration ==
    [][(pc' = "loop" /\ pc # "loop") => pc \in {"start", "delay"}]_vars

\* the events that report what a decision does
BranchEvents == {"searching", "reading", "reflecting", "gap", "knowledge", "answer"}

\* C25: while the consumer is attached, the action that begins a loop
\* iteration enqueues exactly one progress event, first, carrying the new
\* step; no other action enqueues a progress event, so the progress events
\* of a run are as many as the final step. The thinking event with the
\* policy's reasoning is the first event enqueued after the policy call, and
\* the searching, reading, reflecting, gap, knowledge and answer events of a
\* step are only enqueued after it.
C25_StepEventStructure ==
    /\ [][(step' # step /\ ~cancelled) =>
            (/\ step' = step + 1
             /\ events' # <<>>
             /\ events'[1].type = "progress"
             /\ events'[1].step = step'
             /\ \A i \in 2..Len(events') : events'[i].type # "progress")]_vars
    /\ [][(step' = step /\ cancelled' = cancelled) =>
            \A i \in 1..Len(events') : events'[i].type # "progress"]_vars
    /\ [](\A i \in 1..Len(events) : HasStep(events[i]) => events[i].step <= step)
    /\ [][(cancelled' = cancelled /\ pc \in {"start", "loop", "delay"}) =>
            \A i \in 1..Len(events') : events'[i].type \notin BranchEvents]_vars
    /\ [][(cancelled' = cancelled /\ pc = "policy") =>
            \A i \in 1..Len(events') :
                events'[i].type \in BranchEvents =>
                    (/\ i > 1
                     /\ events'[1].type = "thinking"
                     /\ events'[1].message = "reasoning"
                     /\ events'[1].step = step)]_vars
    /\ [][(pc' \in {"search", "read"} /\ pc \notin {"search", "read", "reading"}) =>
            (/\ pc = "policy"
             /\ events'[1].type = "thinking"
             /\ events'[1].message = "reasoning")]_vars
    /\ [][(pc' = "synth" /\ pc # "synth") =>
            \/ (pc = "policy" /\ events'[1].message = "reasoning")
            \/ (pc = "loop" /\ step > 0)]_vars

\* step 2: the reasoning, then the searching event, after a progress event
C25_Witness ==
    /\ pc = "search"
    /\ step = 2
    /\ Len(events) = 2
    /\ events[1].type = "thinking"
    /\ events[1].message = "reasoning"
    /\ events[2].type = "searching"
    /\ events[2].step = 2

IsSuffix(a, b) == Len(a) <= Len(b) /\ a = SubSeq(b, Len(b) - Len(a) + 1, Len(b))

\* C26: the queries of a search decision and the urls of a read decision are
\* processed one at a time in listed order. What is left to process after
\* the decision is a tail of its list, the searching (reading) event is out
\* before any call; each call is on the first entry left, one call per
\* action, and its state updates and its knowledge event, which is about
\* that entry, are complete when the next call is made, on a later entry.
C26_ListedOrder ==
    /\ [][(/\ pc = "policy" /\ pc' \in {"search", "delay"}
           /\ action'.action = "search"
           /\ "searchQueries" \in action'.present) =>
            (/\ IsSuffix(todo', action'.searchQueries)
             /\ events'[Len(events')].type = "searching"
             /\ \A i \in 1..Len(events') : events'[i].type # "knowledge"
             /\ searchCalls' = searchCalls)]_vars
    /\ [][searchCalls' # searchCalls =>
            (/\ pc = "search"
             /\ searchCalls' = [searchCalls EXCEPT ![Head(todo)] = @ + 1]
             /\ Len(knowledge') > Len(knowledge) =>
                    knowledge'[Len(knowledge')].question = Head(todo)
             /\ Len(events') <= 1
             /\ \A i \in 1..Len(events') :
                   IsTerminal(events'[i]) \/
                   (events'[i].type = "knowledge" /\ events'[i].message = Head(todo))
             /\ pc' # "done" =>
                    (IsSuffix(todo', Tail(todo)) /\ readCalls' = readCalls))]_vars
    /\ [][(/\ pc = "policy" /\ pc' \in {"read", "delay"}
           /\ action'.action = "read"
           /\ "urlsToRead" \in action'.present) =>
            (/\ IsSuffix(todo', Slice(action'.urlsToRead))
             /\ events'[Len(events')].type = "reading"
             /\ \A i \in 1..Len(events') : events'[i].type # "knowledge"
             /\ readCalls' = readCalls)]_vars
    /\ [][readCalls' # readCalls =>
            (/\ pc = "read" /\ pc' = "reading"
             /\ readCalls' = [readCalls EXCEPT ![Head(todo)] = @ + 1]
             /\ todo' = todo
             /\ knowledge' = knowledge
             /\ events' = <<Event("reading", "reading", step, Head(todo))>>)]_vars
    /\ [][(pc = "reading" /\ pc' \notin {"reading", "done"}) =>
            (/\ IsSuffix(todo', Tail(todo))
             /\ readCalls' = readCalls
             /\ Len(knowledge') > Len(knowledge) =>
                    knowledge'[Len(knowledge')].question = Head(todo)
             /\ Len(events') <= 1
             /\ \A i \in 1..Len(events') :
                   events'[i].type = "knowledge" /\ events'[i].message = Head(todo))]_vars

\* the decision [T, A]: T is done, its knowledge event out, A is next
C26_Witness ==
    /\ pc = "search"
    /\ todo = <<"A">>
    /\ searchCalls["T"] = 1
    /\ searchCalls["A"] = 0
    /\ Len(events) = 1
    /\ events[1].type = "knowledge"
    /\ events[1].message = "T"
    /\ Len(knowledge) = 1

\* C28: the url list handed to the policy holds, in the pool's order, the
\* urls of the pool that are not in visitedUrls, so none that was visited;
\* the pool never holds a url twice, whatever the overlap of the results.
C28_CandidateUrls ==
    /\ \A i \in 1..Len(candidates) : candidates[i] \notin visitedUrls
    /\ (pc = "policy" =>
            (/\ Range(candidates) = Range(availableUrls) \ visitedUrls
             /\ Len(candidates) = Cardinality(Range(candidates))))
    /\ \A i, j \in 1..Len(availableUrls) :
            i # j => availableUrls[i] # availableUrls[j]

\* u1 and u2 were found, by overlapping searches; u1 was read since
C28_Witness ==
    /\ pc = "policy"
    /\ availableUrls = <<"u1", "u2">>
    /\ visitedUrls = {"u1"}
    /\ candidates = <<"u2">>
    /\ Len(knowledge) >= 2
    /\ knowledge[1].sources = <<"u1", "u1">>
    /\ knowledge[2].sources = <<"u2", "u1">>

\* C29: the sink is closed once, by the action that enqueues the answer or
\* error event and after that event, on each of the three terminal paths;
\* once it is closed the run does nothing more, so no event is enqueued
\* after the close and close is not called again.
C29_CloseOnce ==
    /\ [][(closed' /\ ~closed) =>
            (/\ terminals = 0
             /\ terminals' = 1
             /\ events' # <<>>
             /\ IsTerminal(events'[Len(events')])
             /\ pc' = "done")]_vars
    /\ [][closed => (closed' /\ events' = events /\ pc' = pc)]_vars
    /\ [](closed <=> terminals = 1)
    /\ [](closed => pc = "done")
    /\ [](Finished => closed)

\* the forced synthesis threw: the error event, then the close
C29_Witness ==
    /\ closed
    /\ pc = "done"
    /\ path = "budget"
    /\ report = "<threw>"
    /\ FinalEvent = ErrorEvent
    /\ terminals = 1

\* C30: a reflect decision enqueues, after the thinking event of the
\* decision, exactly one reflecting event and then one gap event per proposed
\* gap question, in listed order, each carrying its gap; the re-append of
\* the original question enqueues nothing.
C30_ReflectEvents ==
    [][(/\ pc = "policy"
        /\ pc' = "delay"
        /\ action'.action = "reflect"
        /\ "gapQuestions" \in action'.present) =>
        LET gs == action'.gapQuestions
        IN  /\ Len(events') = 2 + Len(gs)
            /\ events'[1].type = "thinking"
            /\ events'[2].type = "reflecting"
            /\ events'[2].data = Len(gs)
            /\ \A i \in 1..Len(gs) :
                  /\ events'[2 + i].type = "gap"
                  /\ events'[2 + i].data = gs[i]
                  /\ events'[2 + i].step = step]_vars

\* reflect [A, B] on an empty queue: four events, three gaps queued
C30_Witness ==
    /\ pc = "delay"
    /\ action.action = "reflect"
    /\ Len(action.gapQuestions) = 2
    /\ Len(events) = 4
    /\ events[3].type = "gap"
    /\ events[3].data.question = "A"
    /\ events[4].data.question = "B"
    /\ Len(gaps) = 3
    /\ gaps[3] = MainGap(originalQuestion)

\* C31: knowledge never holds more items than there are issued queries and
\* visited urls: its search items are about distinct issued queries, its url
\* items about distinct visited urls, and it holds no item of another kind
\* (no reflection item).
C31_KnowledgeBound ==
    /\ Len(knowledge) <= Cardinality(searchQueries) + Cardinality(visitedUrls)
    /\ \A i \in 1..Len(knowledge) :
          /\ knowledge[i].type \in {"search", "url"}
          /\ knowledge[i].type = "search" => knowledge[i].question \in searchQueries
          /\ knowledge[i].type = "url" => knowledge[i].question \in visitedUrls
    /\ \A i, j \in 1..Len(knowledge) :
          (i # j /\ knowledge[i].type = knowledge[j].type) =>
              knowledge[i].question # knowledge[j].question

\* every query and every url gave an item
C31_Witness ==
    /\ Len(knowledge) = 4
    /\ Cardinality(searchQueries) = 2
    /\ Cardinality(visitedUrls) = 2
    /\ knowledge[1].type = "url"
    /\ knowledge[4].type = "search"

\* C32: failedAttempts only grows while knowledge has fewer than 3 items, so
\* when it has reached MAX_FAILED_ATTEMPTS knowledge has fewer than 3: the
\* forced synthesis of such a run is over fewer than 3 items and its answer
\* event reports knowledgeItems < 3.
C32_FailedAttemptsExit ==
    /\ [][Len(knowledge) >= MIN_KNOWLEDGE => failedAttempts' = failedAttempts]_vars
    /\ [](failedAttempts = MAX_FAILED_ATTEMPTS => Len(knowledge) < MIN_KNOWLEDGE)
    /\ []((path = "budget" /\ failedAttempts = MAX_FAILED_ATTEMPTS) =>
            (/\ Len(synthKnowledge) < MIN_KNOWLEDGE
             /\ FinalEvent.type = "answer" =>
                    FinalEvent.data.knowledgeItems < MIN_KNOWLEDGE))
    /\ [][(pc = "loop" /\ failedAttempts = MAX_FAILED_ATTEMPTS /\ ~cancelled) =>
            (pc' = "synth" /\ path' = "budget" /\ knowledge' = knowledge)]_vars

\* the third rejection at step 7, with two items: the forced answer
C32_Witness ==
    /\ path = "budget"
    /\ failedAttempts = MAX_FAILED_ATTEMPTS
    /\ step = 7
    /\ report = "report"
    /\ FinalEvent.type = "answer"
    /\ FinalEvent.data.knowledgeItems = 2

\* C33: every url handed to readUrl was returned by the search provider
\* before, in the same run: visitedUrls is always within the candidate pool.
C33_ReadOnlyCandidates ==
    /\ visitedUrls \subseteq Range(availableUrls)
    /\ \A u \in Urls : readCalls[u] > 0 => u \in Range(availableUrls)

\* C34: in a read step a url is added to visitedUrls only if it is among the
\* first MAX_URLS_PER_STEP entries of the proposed list. After a read decision
\* the urls left to read are all among those entries, no url found only beyond
\* the cap is among them, and the unvisited ones are at most MAX_URLS_PER_STEP
\* less the entries of the first MAX_URLS_PER_STEP that are already visited:
\* a visited entry consumes its slot. Through the step a url becomes visited
\* only as the first url left to read, the urls left never grow, the pool of
\* available urls is unchanged, and a candidate stops being one only by being
\* the url read.
C34_CapFrame ==
    /\ [][(/\ pc = "policy"
           /\ pc' \in {"read", "delay"}
           /\ action'.action = "read"
           /\ "urlsToRead" \in action'.present) =>
            LET list == action'.urlsToRead
                cap == Min(Len(list), MAX_URLS_PER_STEP)
                first == {list[j] : j \in 1..cap}
                spent == {j \in 1..cap : list[j] \in visitedUrls}
            IN  /\ Range(todo') \subseteq first
                /\ \A j \in 1..Len(list) :
                      list[j] \notin first => list[j] \notin Range(todo')
                /\ Cardinality(Range(todo') \ visitedUrls)
                      <= MAX_URLS_PER_STEP - Cardinality(spent)
                /\ visitedUrls' = visitedUrls]_vars
    /\ [][visitedUrls' # visitedUrls =>
            (/\ pc = "read"
             /\ visitedUrls' = visitedUrls \cup {Head(todo)})]_vars
    /\ [][(pc \in {"read", "reading"}) =>
            (/\ Range(todo') \subseteq Range(todo)
             /\ availableUrls' = availableUrls)]_vars
    /\ [][(Range(Candidates) \ Range(Candidates')) # {} =>
            (/\ pc = "read"
             /\ Range(Candidates) \ Range(Candidates') = {Head(todo)})]_vars

\* the first three entries are the visited u1: nothing is extracted although
\* the unvisited u2 follows, and u2 is still a candidate
C34_Witness ==
    /\ pc = "delay"
    /\ action.action = "read"
    /\ "urlsToRead" \in action.present
    /\ action.urlsToRead = <<"u1", "u1", "u1", "u2">>
    /\ visitedUrls = {"u1"}
    /\ Candidates = <<"u2">>
    /\ readCalls["u2"] = 0

\* the decision just dispatched is of branch tag, with its payload list
Decided(tag, payload) ==
    /\ pc = "policy"
    /\ pc' # "done"
    /\ action'.action = tag
    /\ payload \in action'.present

\* C35: frame conditions. The dispatch of a search decision and every pass of
\* its for-loop leave visitedUrls, gaps and failedAttempts unchanged; the
\* dispatch of a read decision and every pass of its for-loop leave
\* searchQueries, availableUrls, gaps and failedAttempts unchanged; a reflect
\* decision leaves knowledge, visitedUrls, searchQueries and failedAttempts
\* unchanged; a rejected premature answer adds one to failedAttempts and
\* leaves the rest of the agent state unchanged; originalQuestion never
\* changes.
C35_FrameConditions ==
    /\ [][(Decided("search", "searchQueries") \/ pc = "search") =>
            UNCHANGED <<visitedUrls, gaps, failedAttempts>>]_vars
    /\ [][(Decided("read", "urlsToRead") \/ pc \in {"read", "reading"}) =>
            UNCHANGED <<searchQueries, availableUrls, gaps,
                        failedAttempts>>]_vars
    /\ [][Decided("reflect", "gapQuestions") =>
            UNCHANGED <<knowledge, visitedUrls, searchQueries,
                        failedAttempts>>]_vars
    /\ [][(pc = "policy" /\ pc' = "loop") =>
            (/\ action'.action = "answer"
             /\ failedAttempts' = failedAttempts + 1
             /\ UNCHANGED <<originalQuestion, currentQuestion, gaps,
                            knowledge, visitedUrls, searchQueries, step,
                            availableUrls>>)]_vars
    /\ [][originalQuestion' = originalQuestion]_vars

\* an answer was rejected in a run that holds knowledge and a visited url
C35_Witness ==
    /\ pc = "loop"
    /\ action # NoAction
    /\ action.action = "answer"
    /\ failedAttempts = 1
    /\ knowledge # <<>>
    /\ visitedUrls # {}
    /\ searchQueries # {}

\* decision d matches no dispatch branch
IsNoOp(d) ==
    \/ d.action \notin {"search", "read", "reflect", "answer"}
    \/ d.action = "search" /\ "searchQueries" \notin d.present
    \/ d.action = "read" /\ "urlsToRead" \notin d.present
    \/ d.action = "reflect" /\ "gapQuestions" \notin d.present

\* C36: when the policy call returns a JSON object that matches no dispatch
\* branch (and the consumer is attached), the only event emitted is the
\* thinking event, the agent state is unchanged and the step goes on to its
\* delay, which changes no agent state either; the step was counted when it
\* began, with progress and thinking events only, step never exceeds
\* MAX_STEPS, and the run reaches its end.
C36_NoOpStep ==
    /\ [][(/\ pc = "policy"
           /\ response'.ok
           /\ response'.text = "object"
           /\ IsNoOp(response'.value)
           /\ ~cancelled) =>
            (/\ pc' = "delay"
             /\ events' = <<Event("thinking", "reasoning", step,
                                  response'.value.action)>>
             /\ UNCHANGED <<stateVars, todo, path, report, terminals, closed,
                            callVars>>)]_vars
    /\ [][pc = "delay" => UNCHANGED <<stateVars, callVars>>]_vars
    /\ [][(pc = "loop" /\ pc' = "policy") =>
            (/\ step' = step + 1
             /\ \A i \in 1..Len(events') :
                   events'[i].type \in {"progress", "thinking"})]_vars
    /\ [](pc = "policy" => step <= MAX_STEPS)
    /\ (pc = "delay" /\ response.text = "object" /\ IsNoOp(response.value))
          ~> (pc = "done")

\* the last step of the budget was a no-op, in a run that learned nothing
C36_Witness ==
    /\ pc = "delay"
    /\ response.text = "object"
    /\ IsNoOp(response.value)
    /\ step = MAX_STEPS
    /\ knowledge = <<>>
    /\ searchQueries = {}
    /\ visitedUrls = {}
    /\ failedAttempts = 0

\* the request was refused with a JSON body of the given status
Refused(status) ==
    /\ pc = "replied"
    /\ reply = [status |-> status, type |-> "json"]

\* no agent state, no collaborator call, no event stream
NothingStarted ==
    /\ originalQuestion = NoTopic
    /\ currentQuestion = NoTopic
    /\ knowledge = <<>>
    /\ gaps = <<>>
    /\ step = 0
    /\ response = NoResponse
    /\ synthCalls = 0
    /\ \A q \in Questions : searchCalls[q] = 0
    /\ \A u \in Urls : readCalls[u] = 0
    /\ events = <<>>
    /\ ~closed
    /\ reply.type # "stream"

TopicAbsent == request.body = "object" /\ request.topic \in {NoTopic, ""}

BothKeys == request.lovableKey /\ request.tavilyKey

Delivered(w) ==
    LET n == Len(Bytes(sent)) - Len(w)
    IN  Cardinality({ k \in 1..Len(sent) :
                        Len(Bytes(SubSeq(sent, 1, k))) - 1 <= n })

\* C38: however the body is cut into chunks, a read appends to the events
\* list exactly the events of the server whose lines the chunk finishes, in
\* the order sent and once each, and leaves the rest of the list as it was;
\* when the whole body is read nothing is left in the buffer or the decoder,
\* so the list has received the whole sequence sent.
C38_ChunkIndependence ==
    /\ [][(cpc = "read" /\ wire' # wire) =>
            clientEvents' =
                clientEvents \o SubSeq(sent, Delivered(wire) + 1,
                                       Delivered(wire'))]_vars
    /\ [](cpc = "read" => Delivered(<<>>) = Len(sent))
    /\ []((cpc = "read" /\ wire = <<>>) => (buffer = <<>> /\ pending = <<>>))

\* a chunk ended between the two bytes of a character, inside the second
\* event, after the first event was appended
C38_Witness ==
    /\ cpc = "read"
    /\ pending = <<"c3">>
    /\ buffer # <<>>
    /\ Len(clientEvents) = 1
    /\ clientEvents[1] = sent[1]
    /\ sent[1].message = "lineFeed"
    /\ Len(sent) = MaxStream

\* the read just made appended an event of the given type as the last one
Received(type) ==
    /\ cpc = "read"
    /\ Len(clientEvents') > Len(clientEvents)
    /\ clientEvents'[Len(clientEvents')].type = type

\* C39: a research starts in idle and moves appState to researching, with
\* reportData null; the read that receives an answer event with data sets
\* reportData to its data and moves appState to complete; the read that
\* receives an error event moves appState to idle, with reportData null, and
\* ends the handler; once the handler has returned from a stream whose last
\* event is answer or error, appState is not researching; and appState is
\* complete only while reportData is set.
C39_ClientStates ==
    /\ [][(cpc # "fetch" /\ cpc' = "fetch") =>
            (/\ appState = "idle"
             /\ appState' = "researching"
             /\ reportData' = "null")]_vars
    /\ [][(Received("answer")
              /\ clientEvents'[Len(clientEvents')].data # "none") =>
            (/\ reportData' = clientEvents'[Len(clientEvents')].data
             /\ appState' = "complete")]_vars
    /\ [][Received("error") =>
            (/\ appState' = "idle"
             /\ reportData' = "null"
             /\ cpc' = "returned")]_vars
    /\ []((/\ cpc = "returned"
           /\ sent # <<>>
           /\ sent[Len(sent)].type \in {"answer", "error"}) =>
            appState # "researching")
    /\ [](appState = "complete" => reportData # "null")

\* the handler has returned from a stream that ended with the answer
C39_Witness ==
    /\ cpc = "returned"
    /\ appState = "complete"
    /\ reportData = "report"
    /\ Len(sent) = MaxStream
    /\ clientEvents = sent
    /\ sent[MaxStream].type = "answer"

\* C40: truncateToTokens(text, maxTokens) is text itself when text has at
\* most 4 * maxTokens characters, and otherwise the first 4 * maxTokens
\* characters of text followed by '...'; the result has at most
\* 4 * maxTokens + 3 characters, and truncating it again with the same budget
\* gives the same result.
C40_Truncate ==
    /\ [](tpc \in {"once", "twice"} =>
            LET maxChars == CharsPerToken * maxTokens
            IN  /\ Len(text) <= maxChars => once = text
                /\ Len(text) > maxChars =>
                      once = SubSeq(text, 1, maxChars) \o <<".", ".", ".">>
                /\ Len(once) <= maxChars + Len(<<".", ".", ".">>))
    /\ [](tpc = "twice" => twice = once)

\* a text longer than its budget, cut and then cut again
C40_Witness ==
    /\ tpc = "twice"
    /\ maxTokens = 1
    /\ Len(text) = MaxText
    /\ Len(once) = CharsPerToken + Len(Ellipsis)
    /\ twice = once

====
